---- MODULE Spec2Model ----
(***************************************************************************)
(* Model of the JSONL -> Parquet converter of pyVision/Unifytics:          *)
(*   src/jsonl_converter/converter.py          convert_jsonl_to_parquet    *)
(*   src/scripts/jsonl_converter/schema_handler.py                         *)
(*                                              convert_with_custom_schema *)
(* The pandas / pyarrow calls are modelled by what the libraries do for    *)
(* the arguments the code passes to them.                                  *)
(***************************************************************************)
EXTENDS Integers, Sequences, FiniteSets, TLC

VARIABLES
    call,           \* which entry point runs: "stream" or "schema"
    input,          \* the lines of the input file, in file order
    inputExists,    \* whether input_path names a readable file
    chunk_size,     \* <<>> for None, <<n>> for the integer n
    compression,    \* the codec argument
    outFile,        \* the file at output_path
    outFile0,       \* the file at output_path when the call started
    pc,             \* position of the call
    metrics,        \* the ConversionMetrics object
    now,            \* time.time()
    start_time,     \* local start_time
    reader,         \* local reader (JsonReader or DataFrame)
    first_chunk,    \* local first_chunk
    i,              \* loop index of enumerate(reader)
    chunk,          \* local chunk
    table,          \* local table
    chunk_start,    \* local chunk_start
    compression_start, \* local compression_start
    result,         \* what the call gave back: "none", "True", "False", "raised"
    error,          \* the exception that ended the call, "" when none
    io,             \* I/O done by the call so far, in order
    written,        \* batch numbers whose write_table call returned, in order
    run,            \* 1 for the call with batch size B, 2 for the call with 2B
    firstRun,       \* outcome of run 1, kept for comparison with run 2
    schema_definition, \* argument of convert_with_custom_schema, <<>> for None
    failedAt        \* value of now when the call failed, 0 while it has not

vars == <<call, input, inputExists, chunk_size, compression, outFile, outFile0,
          pc, metrics, now, start_time, reader, first_chunk, i, chunk, table,
          chunk_start, compression_start, result, error, io, written, run,
          firstRun, schema_definition, failedAt>>

(***************************************************************************)
(* Bounds                                                                  *)
(***************************************************************************)
MaxRecords == 3
MaxChunk == 2

(***************************************************************************)
(* JSON values and lines                                                   *)
(***************************************************************************)
Null == [t |-> "null"]
IntV(n) == [t |-> "int", n |-> n]
FloatV(n) == [t |-> "float", n |-> n]
TextV(s) == [t |-> "text", s |-> s]
ObjV(o) == [t |-> "obj", o |-> o]
ListV(l) == [t |-> "list", l |-> l]
StrOf(v) == [t |-> "str", of |-> v]

Pair(k, v) == [k |-> k, v |-> v]
Line(fields) == [ok |-> TRUE, fields |-> fields]
BadLine == [ok |-> FALSE, fields |-> <<>>]

Range(s) == {s[j] : j \in DOMAIN s}

\* value of key k in a JSON object (a sequence of key/value pairs)
Lookup(obj, k) ==
    IF \E j \in DOMAIN obj : obj[j].k = k
    THEN obj[CHOOSE j \in DOMAIN obj : obj[j].k = k /\ \A h \in DOMAIN obj : obj[h].k = k => h <= j].v
    ELSE Null

RECURSIVE AppendNew(_, _)
AppendNew(keys, obj) ==
    IF obj = <<>> THEN keys
    ELSE AppendNew(IF Head(obj).k \in Range(keys) THEN keys ELSE Append(keys, Head(obj).k),
                   Tail(obj))

\* keys of a list of objects, in the order they first appear
RECURSIVE UnionKeys(_, _)
UnionKeys(keys, objs) ==
    IF objs = <<>> THEN keys
    ELSE UnionKeys(AppendNew(keys, Head(objs)), Tail(objs))

(***************************************************************************)
(* pandas                                                                  *)
(***************************************************************************)
\* DataFrame built from a list of JSON objects, index start .. start+n-1
DataFrameOf(objs, start) ==
    LET cols == UnionKeys(<<>>, objs) IN
    [index   |-> [j \in 1..Len(objs) |-> start + j - 1],
     columns |-> cols,
     rows    |-> [j \in 1..Len(objs) |-> [c \in Range(cols) |-> Lookup(objs[j], c)]]]

NoFrame == [index |-> <<>>, columns |-> <<>>, rows |-> <<>>]

\* chunk.select_dtypes(include=['object']): columns holding Python objects
IsObjectColumn(df, c) ==
    \E j \in DOMAIN df.rows : df.rows[j][c].t \in {"obj", "list", "str", "text"}

RECURSIVE SelectSeq2(_, _)
SelectSeq2(s, keep) ==
    IF s = <<>> THEN <<>>
    ELSE IF Head(s) \in keep THEN <<Head(s)>> \o SelectSeq2(Tail(s), keep)
    ELSE SelectSeq2(Tail(s), keep)

ObjectColumns(df) ==
    SelectSeq2(df.columns, {c \in Range(df.columns) : IsObjectColumn(df, c)})

\* pd.json_normalize(list of cells): one flat record per cell, RangeIndex from 0
JsonNormalize(cells) ==
    DataFrameOf([j \in DOMAIN cells |-> IF cells[j].t = "obj" THEN cells[j].o ELSE <<>>], 0)

\* nested_df.columns = f"{column}." + nested_df.columns
PrefixColumns(df, column) ==
    LET new == [j \in DOMAIN df.columns |-> column \o "." \o df.columns[j]] IN
    [index   |-> df.index,
     columns |-> new,
     rows    |-> [j \in DOMAIN df.rows |->
                    [c \in Range(new) |->
                        df.rows[j][df.columns[CHOOSE h \in DOMAIN new : new[h] = c]]]]]

\* chunk.drop(columns=[column])
DropColumn(df, column) ==
    LET cols == SelectSeq2(df.columns, Range(df.columns) \ {column}) IN
    [index   |-> df.index,
     columns |-> cols,
     rows    |-> [j \in DOMAIN df.rows |-> [c \in Range(cols) |-> df.rows[j][c]]]]

\* position in right.index carrying label lbl, 0 when there is none
IndexPos(right, lbl) ==
    IF \E h \in DOMAIN right.index : right.index[h] = lbl
    THEN CHOOSE h \in DOMAIN right.index : right.index[h] = lbl
    ELSE 0

\* left.join(right): left join on the index labels
Join(left, right) ==
    [index   |-> left.index,
     columns |-> left.columns \o right.columns,
     rows    |-> [j \in DOMAIN left.rows |->
                    [c \in Range(left.columns) \cup Range(right.columns) |->
                        IF c \in Range(left.columns) THEN left.rows[j][c]
                        ELSE IF IndexPos(right, left.index[j]) = 0 THEN Null
                        ELSE right.rows[IndexPos(right, left.index[j])][c]]]]

JoinOverlaps(left, right) == Range(left.columns) \cap Range(right.columns) # {}

\* lambda x: str(x) if x else None
RenderList(v) ==
    IF v.t = "list" /\ v.l = <<>> THEN Null
    ELSE IF v.t = "obj" /\ v.o = <<>> THEN Null
    ELSE StrOf(v)

ApplyRender(df, column) ==
    [index   |-> df.index,
     columns |-> df.columns,
     rows    |-> [j \in DOMAIN df.rows |->
                    [c \in Range(df.columns) |->
                        IF c = column THEN RenderList(df.rows[j][c]) ELSE df.rows[j][c]]]]

ColumnCells(df, column) == [j \in DOMAIN df.rows |-> df.rows[j][column]]

\* one pass of the loop body of lines 88-93 on a frame that still has column
FlattenColumn(df, column) ==
    IF df.rows[1][column].t = "obj"
    THEN Join(DropColumn(df, column),
              PrefixColumns(JsonNormalize(ColumnCells(df, column)), column))
    ELSE IF df.rows[1][column].t = "list"
    THEN ApplyRender(df, column)
    ELSE df

FlattenColumnFails(df, column) ==
    /\ df.rows[1][column].t = "obj"
    /\ JoinOverlaps(DropColumn(df, column),
                    PrefixColumns(JsonNormalize(ColumnCells(df, column)), column))

\* the for loop of lines 87-93 over the object columns of the frame it starts with
RECURSIVE FlattenLoop(_, _)
FlattenLoop(df, cols) ==
    IF cols = <<>> THEN [ok |-> TRUE, df |-> df]
    ELSE IF FlattenColumnFails(df, Head(cols)) THEN [ok |-> FALSE, df |-> df]
    ELSE FlattenLoop(FlattenColumn(df, Head(cols)), Tail(cols))

Flatten(df) == FlattenLoop(df, ObjectColumns(df))

(***************************************************************************)
(* pyarrow                                                                 *)
(***************************************************************************)
\* pa.Table.from_pandas(chunk): the frame's columns; a RangeIndex is metadata
TableFromPandas(df) == [columns |-> df.columns, rows |-> df.rows]

NoTable == [columns |-> <<>>, rows |-> <<>>]

Absent == [state |-> "absent", codec |-> "", groups |-> <<>>]
Unwritable == [state |-> "unwritable", codec |-> "", groups |-> <<>>]
OldFile == [state |-> "old", codec |-> "", groups |-> <<>>]
Truncated == [state |-> "truncated", codec |-> "", groups |-> <<>>]
Parquet(codec, groups) == [state |-> "parquet", codec |-> codec, groups |-> groups]

\* codecs pyarrow's writer accepts for compression=
ArrowCodecs == {"snappy", "gzip", "brotli", "none", "lz4", "zstd"}

\* exception raised by pq.write_table(table, path, compression=, [append=True]), "" if none
WriteTableError(file, codec, append) ==
    IF file.state = "unwritable" THEN "OSError"
    ELSE IF append THEN "TypeError"
    ELSE IF codec \notin ArrowCodecs THEN "ArrowException"
    ELSE ""

\* files a failed write_table can leave at the path
AfterFailedWrite(file) ==
    IF file.state = "unwritable" THEN {Unwritable} ELSE {Absent, Truncated}

RECURSIVE SumRows(_)
SumRows(groups) ==
    IF groups = <<>> THEN 0 ELSE Len(Head(groups).rows) + SumRows(Tail(groups))

RECURSIVE SumCells(_)
SumCells(groups) ==
    IF groups = <<>> THEN 0
    ELSE Len(Head(groups).rows) * Len(Head(groups).columns) + SumCells(Tail(groups))

\* rows a reader of the file gets, 0 when it is not a readable parquet file
RowCount(file) == IF file.state = "parquet" THEN SumRows(file.groups) ELSE 0

\* column names of the file's schema (that of its first row group)
ColumnSet(file) ==
    IF file.state = "parquet" /\ file.groups # <<>> THEN Range(file.groups[1].columns) ELSE {}

(***************************************************************************)
(* os.path.getsize                                                         *)
(***************************************************************************)
GetSizeFails(file) == file.state \in {"absent", "unwritable"}

GetSize(file) ==
    IF file.state = "parquet" THEN 8 + SumCells(file.groups)
    ELSE IF file.state = "old" THEN 5
    ELSE 0

RECURSIVE InputBytes(_)
InputBytes(lines) ==
    IF lines = <<>> THEN 0 ELSE Len(Head(lines).fields) + 2 + InputBytes(Tail(lines))

(***************************************************************************)
(* Inputs                                                                  *)
(***************************************************************************)
R1 == Line(<<Pair("id", IntV(1)),
             Pair("c", ObjV(<<Pair("a", IntV(1)), Pair("b", IntV(2))>>)),
             Pair("l", ListV(<<1>>))>>)
R2 == Line(<<Pair("id", IntV(2)),
             Pair("c", ObjV(<<Pair("a", IntV(3))>>)),
             Pair("l", ListV(<<>>))>>)
StreamLines == {R1, R2, BadLine}

S1 == Line(<<Pair("id", IntV(1)), Pair("timestamp", [t |-> "ts"]),
             Pair("value", FloatV(25)), Pair("category", TextV("x")),
             Pair("extra", TextV("e"))>>)
S2 == Line(<<Pair("id", TextV("abc")), Pair("timestamp", [t |-> "ts"]),
             Pair("value", FloatV(25)), Pair("category", TextV("y")),
             Pair("extra", TextV("e"))>>)
S3 == Line(<<Pair("id", IntV(5)), Pair("extra", TextV("x"))>>)
SchemaLines == {S1, S2, S3, BadLine}

SeqsUpTo(S, n) == UNION {[1..m -> S] : m \in 0..n}

ChunkSizes == {<<>>} \cup {<<n>> : n \in 0..MaxChunk}
Codecs == {"snappy", "none", "bogus"}
OutFiles == {Absent, OldFile, Unwritable}

SchemaDefinitions ==
    {<<>>,
     <<Pair("id", "int64")>>,
     <<Pair("id", "int64"), Pair("value", "float64")>>,
     <<Pair("id", "string")>>,
     <<Pair("id", "int65")>>,
     <<Pair("id", "int64"), Pair("missing", "int64")>>}

(***************************************************************************)
(* ConversionMetrics, lines 41-51                                          *)
(***************************************************************************)
ConversionMetrics ==
    [total_duration |-> 0, chunk_times |-> <<>>, compression_time |-> 0,
     input_size |-> 0, output_size |-> 0]

NoReader == [kind |-> "none", pos |-> 1, nrows_seen |-> 0, cols |-> <<>>, n |-> 0]
NoChunk == [kind |-> "none", df |-> NoFrame, s |-> ""]
NoRun == [result |-> "none", file |-> Absent]

Init ==
    /\ call \in {"stream", "schema"}
    /\ inputExists \in BOOLEAN
    /\ input \in SeqsUpTo(IF call = "stream" THEN StreamLines ELSE SchemaLines, MaxRecords)
    /\ inputExists = FALSE => input = <<>>
    /\ chunk_size \in (IF call = "stream" THEN ChunkSizes ELSE {<<>>})
    /\ compression \in (IF call = "stream" THEN Codecs ELSE {"snappy"})
    /\ schema_definition \in (IF call = "schema" THEN SchemaDefinitions ELSE {<<>>})
    /\ outFile0 \in OutFiles
    /\ outFile = outFile0
    /\ pc = "start"
    /\ metrics = ConversionMetrics
    /\ now = 1
    /\ start_time = 0
    /\ reader = NoReader
    /\ first_chunk = TRUE
    /\ i = 0
    /\ chunk = NoChunk
    /\ table = NoTable
    /\ chunk_start = 0
    /\ compression_start = 0
    /\ result = "none"
    /\ error = ""
    /\ io = <<>>
    /\ written = <<>>
    /\ run = 1
    /\ firstRun = NoRun
    /\ failedAt = 0

\* a handler that names the I/O errors only
CaughtIOOnly(e) == e \in {"FileNotFoundError", "OSError"}

\* except Exception, line 125: every exception the body raises derives from Exception
Caught(e) == TRUE

\* a handler placed inside the loop: the failure is recorded and the loop goes on
RaiseAndContinue(e) ==
    /\ pc' = IF pc \in {"next", "flatten", "write"} THEN "next" ELSE "done"
    /\ result' = "False"
    /\ error' = e
    /\ failedAt' = now

\* lines 125-127: the handler logs and returns (False, metrics)
Raise(e) ==
    /\ pc' = "done"
    /\ result' = IF Caught(e) THEN "False" ELSE "raised"
    /\ error' = e
    /\ failedAt' = now

Continue(next) ==
    /\ pc' = next
    /\ UNCHANGED <<result, error, failedAt>>

params == <<call, input, inputExists, chunk_size, compression, outFile0, run,
            firstRun, schema_definition>>
locals == <<reader, first_chunk, i, chunk, table, chunk_start, compression_start>>

\* lines 71-72
Start ==
    /\ call = "stream" /\ pc = "start"
    /\ metrics' = ConversionMetrics
    /\ start_time' = now
    /\ now' = now + 1
    /\ Continue("measure")
    /\ UNCHANGED <<params, locals, outFile, io, written>>

\* line 78
MeasureInput ==
    /\ pc = "measure"
    /\ now' = now + 1
    /\ IF ~inputExists
       THEN /\ Raise("FileNotFoundError")
            /\ UNCHANGED <<metrics, io>>
       ELSE /\ metrics' = [metrics EXCEPT !.input_size = InputBytes(input)]
            /\ io' = Append(io, "stat_input")
            /\ Continue("open")
    /\ UNCHANGED <<params, locals, outFile, start_time, written>>

\* line 79: pd.read_json(input_path, lines=True, chunksize=chunk_size)
OpenReader ==
    /\ pc = "open"
    /\ now' = now + 1
    /\ IF chunk_size # <<>> /\ chunk_size[1] < 1
       THEN /\ Raise("ValueError")
            /\ UNCHANGED <<reader, io>>
       ELSE IF chunk_size # <<>>
       THEN /\ reader' = [kind |-> "json", pos |-> 1, nrows_seen |-> 0, cols |-> <<>>, n |-> 0]
            /\ io' = Append(io, "open_input")
            /\ Continue("next")
       ELSE /\ io' = Append(io, "read_input")
            /\ IF \E j \in DOMAIN input : ~input[j].ok
               THEN /\ Raise("ValueError")
                    /\ UNCHANGED reader
               ELSE /\ reader' = [kind |-> "frame", pos |-> 1, nrows_seen |-> 0, n |-> 0,
                                  cols |-> DataFrameOf([j \in DOMAIN input |-> input[j].fields], 0).columns]
                    /\ Continue("next")
    /\ UNCHANGED <<params, first_chunk, i, chunk, table, chunk_start, compression_start,
                   outFile, metrics, start_time, written>>

\* lines the JsonReader takes for its next chunk: islice(self.data, self.chunksize)
NextLines(lines, pos, size) ==
    SubSeq(lines, pos, IF pos + size - 1 < Len(lines) THEN pos + size - 1 ELSE Len(lines))

\* lines 82-84: enumerate(reader) yields the next item, or the loop ends
NextChunk ==
    /\ pc = "next"
    /\ now' = now + 1
    /\ IF reader.kind = "json"
       THEN IF reader.pos > Len(input)
            THEN /\ Continue("finish")
                 /\ UNCHANGED <<reader, i, chunk, chunk_start, compression_start, io>>
            ELSE LET lines == NextLines(input, reader.pos, chunk_size[1]) IN
                 /\ io' = Append(io, "read_input")
                 /\ IF \E j \in DOMAIN lines : ~lines[j].ok
                    THEN /\ Raise("ValueError")
                         /\ UNCHANGED <<reader, i, chunk, chunk_start, compression_start>>
                    ELSE /\ chunk' = [kind |-> "frame", s |-> "",
                                      df |-> DataFrameOf([j \in DOMAIN lines |-> lines[j].fields],
                                                         reader.nrows_seen)]
                         /\ reader' = [reader EXCEPT !.pos = @ + Len(lines),
                                                     !.nrows_seen = @ + Len(lines),
                                                     !.n = @ + 1]
                         /\ i' = reader.n
                         /\ chunk_start' = now
                         /\ compression_start' = now
                         /\ Continue("flatten")
       ELSE IF reader.cols = <<>>
            THEN /\ Continue("finish")
                 /\ UNCHANGED <<reader, i, chunk, chunk_start, compression_start, io>>
            ELSE /\ chunk' = [kind |-> "str", s |-> Head(reader.cols), df |-> NoFrame]
                 /\ reader' = [reader EXCEPT !.cols = Tail(@), !.n = @ + 1]
                 /\ i' = reader.n
                 /\ chunk_start' = now
                 /\ compression_start' = now
                 /\ Continue("flatten")
                 /\ UNCHANGED io
    /\ UNCHANGED <<params, first_chunk, table, outFile, metrics, start_time, written>>

\* lines 86-93
FlattenChunk ==
    /\ pc = "flatten"
    /\ now' = now + 1
    /\ IF chunk.kind = "str"
       THEN /\ Raise("AttributeError")
            /\ UNCHANGED chunk
       ELSE IF ~Flatten(chunk.df).ok
       THEN /\ Raise("ValueError")
            /\ UNCHANGED chunk
       ELSE /\ chunk' = [chunk EXCEPT !.df = Flatten(chunk.df).df]
            /\ Continue("write")
    /\ UNCHANGED <<params, reader, first_chunk, i, table, chunk_start, compression_start,
                   outFile, metrics, start_time, io, written>>

\* lines 95-102
WriteChunk ==
    /\ pc = "write"
    /\ now' = now + Len(chunk.df.rows)
    /\ table' = TableFromPandas(chunk.df)
    /\ LET e == WriteTableError(outFile, compression, ~first_chunk) IN
       IF e # ""
       THEN /\ outFile' \in AfterFailedWrite(outFile)
            /\ Raise(e)
            /\ UNCHANGED <<first_chunk, written>>
            /\ io' = IF outFile.state = "unwritable" THEN io ELSE Append(io, "write_output")
       ELSE /\ outFile' = Parquet(compression, <<TableFromPandas(chunk.df)>>)
            /\ first_chunk' = FALSE
            /\ written' = Append(written, i + 1)
            /\ io' = Append(io, "write_output")
            /\ Continue("record")
    /\ UNCHANGED <<params, reader, i, chunk, chunk_start, compression_start,
                   metrics, start_time>>

\* lines 104-111
RecordChunk ==
    /\ pc = "record"
    /\ now' = now + 1
    /\ metrics' = [metrics EXCEPT !.compression_time = @ + (now - compression_start),
                                  !.chunk_times = Append(@, now - chunk_start)]
    /\ Continue("next")
    /\ UNCHANGED <<params, locals, outFile, start_time, io, written>>

\* log lines that guard their divisions
SummaryGuarded(m) == ""

\* exception raised by the log lines 117-121, "" if none
SummaryError(m) ==
    IF Len(m.chunk_times) = 0 THEN "ZeroDivisionError"
    ELSE IF m.input_size = 0 THEN "ZeroDivisionError"
    ELSE ""

\* lines 113-123
Finish ==
    /\ pc = "finish"
    /\ now' = now + 1
    /\ IF GetSizeFails(outFile)
       THEN /\ Raise("FileNotFoundError")
            /\ UNCHANGED <<metrics, io>>
       ELSE /\ metrics' = [metrics EXCEPT !.output_size = GetSize(outFile),
                                          !.total_duration = now - start_time]
            /\ io' = Append(io, "stat_output")
            /\ IF SummaryError(metrics') # ""
               THEN Raise(SummaryError(metrics'))
               ELSE /\ pc' = "done"
                    /\ result' = "True"
                    /\ UNCHANGED <<error, failedAt>>
    /\ UNCHANGED <<params, locals, outFile, start_time, written>>

\* a second call on the same input and the same initial output path, with batch size 2B
Rerun ==
    /\ call = "stream" /\ pc = "done" /\ run = 1
    /\ chunk_size # <<>> /\ chunk_size[1] >= 1
    /\ firstRun' = [result |-> result, file |-> outFile]
    /\ run' = 2
    /\ chunk_size' = <<2 * chunk_size[1]>>
    /\ outFile' = outFile0
    /\ pc' = "start"
    /\ metrics' = ConversionMetrics
    /\ now' = 1
    /\ start_time' = 0
    /\ reader' = NoReader
    /\ first_chunk' = TRUE
    /\ i' = 0
    /\ chunk' = NoChunk
    /\ table' = NoTable
    /\ chunk_start' = 0
    /\ compression_start' = 0
    /\ result' = "none"
    /\ error' = ""
    /\ io' = <<>>
    /\ written' = <<>>
    /\ failedAt' = 0
    /\ UNCHANGED <<call, input, inputExists, compression, outFile0, schema_definition>>

(***************************************************************************)
(* schema_handler.py                                                       *)
(***************************************************************************)
TypeName(n) == [str |-> TRUE, ty |-> n]
TypeObj(n) == [str |-> FALSE, ty |-> n]

\* lines 57-62
DefaultSchema ==
    <<Pair("id", TypeName("int64")), Pair("timestamp", TypeObj("timestamp[ns]")),
      Pair("value", TypeName("float64")), Pair("category", TypeName("string"))>>

\* type factories getattr(pa, dtype) finds
ArrowTypeNames == {"int64", "float64", "string"}

\* lines 13-30
create_custom_schema(def) ==
    [ok     |-> \A j \in DOMAIN def : def[j].v.str => def[j].v.ty \in ArrowTypeNames,
     fields |-> [j \in DOMAIN def |-> Pair(def[j].k, def[j].v.ty)]]

\* whether pyarrow converts a cell to the declared type
Coercible(cell, ty) ==
    \/ cell.t = "null"
    \/ ty = "int64" /\ cell.t = "int"
    \/ ty = "float64" /\ cell.t \in {"int", "float"}
    \/ ty = "string" /\ cell.t = "text"
    \/ ty = "timestamp[ns]" /\ cell.t = "ts"

Coerce(cell, ty) ==
    IF ty = "float64" /\ cell.t = "int" THEN FloatV(10 * cell.n) ELSE cell

\* exception raised by pa.Table.from_pandas(df, schema=schema), "" if none
SchemaTableError(df, fields) ==
    IF \E j \in DOMAIN fields : fields[j].k \notin Range(df.columns) THEN "KeyError"
    ELSE IF \E j \in DOMAIN fields : \E r \in DOMAIN df.rows :
                ~Coercible(df.rows[r][fields[j].k], fields[j].v)
    THEN "ArrowInvalid"
    ELSE ""

\* a conversion that keeps every column of the frame
SchemaTableKeepAll(df, fields) == [columns |-> df.columns, rows |-> df.rows]

\* pa.Table.from_pandas(df, schema=schema): the schema's columns, in schema order
SchemaTableOf(df, fields) ==
    LET cols == [j \in DOMAIN fields |-> fields[j].k] IN
    [columns |-> cols,
     rows    |-> [r \in DOMAIN df.rows |->
                    [c \in Range(cols) |->
                        Coerce(df.rows[r][c],
                               fields[CHOOSE j \in DOMAIN fields : fields[j].k = c].v)]]]

\* lines 70-72
SchemaRaise(e) ==
    /\ pc' = "done"
    /\ result' = "False"
    /\ error' = e
    /\ failedAt' = now

\* lines 56-64
SchemaCreate ==
    /\ call = "schema" /\ pc = "start"
    /\ now' = now + 1
    /\ LET def == IF schema_definition = <<>> THEN DefaultSchema
                  ELSE [j \in DOMAIN schema_definition |->
                          Pair(schema_definition[j].k, TypeName(schema_definition[j].v))] IN
       IF create_custom_schema(def).ok
       THEN /\ reader' = [NoReader EXCEPT !.cols = create_custom_schema(def).fields]
            /\ Continue("s_read")
       ELSE /\ SchemaRaise("AttributeError")
            /\ UNCHANGED reader
    /\ UNCHANGED <<params, first_chunk, i, chunk, table, chunk_start, compression_start,
                   outFile, metrics, start_time, io, written>>

\* line 65
SchemaRead ==
    /\ pc = "s_read"
    /\ now' = now + 1
    /\ IF ~inputExists
       THEN /\ SchemaRaise("FileNotFoundError")
            /\ UNCHANGED <<chunk, io>>
       ELSE /\ io' = Append(io, "read_input")
            /\ IF \E j \in DOMAIN input : ~input[j].ok
               THEN /\ SchemaRaise("ValueError")
                    /\ UNCHANGED chunk
               ELSE /\ chunk' = [kind |-> "frame", s |-> "",
                                 df |-> DataFrameOf([j \in DOMAIN input |-> input[j].fields], 0)]
                    /\ Continue("s_table")
    /\ UNCHANGED <<params, reader, first_chunk, i, table, chunk_start, compression_start,
                   outFile, metrics, start_time, written>>

\* line 66
SchemaTable ==
    /\ pc = "s_table"
    /\ now' = now + 1
    /\ IF SchemaTableError(chunk.df, reader.cols) # ""
       THEN /\ SchemaRaise(SchemaTableError(chunk.df, reader.cols))
            /\ UNCHANGED table
       ELSE /\ table' = SchemaTableOf(chunk.df, reader.cols)
            /\ Continue("s_write")
    /\ UNCHANGED <<params, reader, first_chunk, i, chunk, chunk_start, compression_start,
                   outFile, metrics, start_time, io, written>>

\* lines 67-68
SchemaWrite ==
    /\ pc = "s_write"
    /\ now' = now + 1
    /\ LET e == WriteTableError(outFile, "snappy", FALSE) IN
       IF e # ""
       THEN /\ outFile' \in AfterFailedWrite(outFile)
            /\ SchemaRaise(e)
            /\ UNCHANGED <<io, written>>
       ELSE /\ outFile' = Parquet("snappy", <<table>>)
            /\ io' = Append(io, "write_output")
            /\ written' = Append(written, 1)
            /\ pc' = "done"
            /\ result' = "True"
            /\ UNCHANGED <<error, failedAt>>
    /\ UNCHANGED <<params, locals, metrics, start_time>>

Next ==
    \/ Start
    \/ MeasureInput
    \/ OpenReader
    \/ NextChunk
    \/ FlattenChunk
    \/ WriteChunk
    \/ RecordChunk
    \/ Finish
    \/ Rerun
    \/ SchemaCreate
    \/ SchemaRead
    \/ SchemaTable
    \/ SchemaWrite

Spec == Init /\ [][Next]_vars

TypeOK ==
    /\ pc \in {"start", "measure", "open", "next", "flatten", "write", "record", "finish",
               "done", "s_read", "s_table", "s_write"}
    /\ result \in {"none", "True", "False", "raised"}
    /\ run \in {1, 2}

(***************************************************************************)
(* Notions the properties are stated in                                    *)
(***************************************************************************)
\* the codecs the specification enumerates
SpecCodecs == {"snappy", "gzip", "brotli", "none"}

AllLinesOk == \A j \in DOMAIN input : input[j].ok

\* a call on a readable, well-formed input, a positive batch size, a listed codec
\* and a writable output path
ValidStream ==
    /\ call = "stream" /\ inputExists /\ AllLinesOk
    /\ outFile0.state # "unwritable"
    /\ compression \in SpecCodecs

Chunked == chunk_size # <<>> /\ chunk_size[1] >= 1

\* number of batches of n records under batch size b
NumBatches(n, b) == (n + b - 1) \div b

\* records of batch k under batch size b
BatchLines(k, b) == NextLines(input, (k - 1) * b + 1, b)

OneTo(n) == [j \in 1..n |-> j]

RECURSIVE CountReads(_)
CountReads(log) ==
    IF log = <<>> THEN 0
    ELSE (IF Head(log) = "read_input" THEN 1 ELSE 0) + CountReads(Tail(log))

\* C1: over an input of N >= 1 batches the first batch creates the file and every
\* later batch is appended to it with the same codec, so that after the call the
\* file holds the rows of all N batches.
C1_AllBatchesInFile ==
    (ValidStream /\ Chunked /\ Len(input) >= 1 /\ pc = "done") =>
        /\ outFile.state = "parquet"
        /\ outFile.codec = compression
        /\ Len(outFile.groups) = NumBatches(Len(input), chunk_size[1])
        /\ RowCount(outFile) = Len(input)

\* C2: for an empty input file the call processes zero batches and returns
\* success (True) with an empty chunk_times; the zero denominators of the mean
\* batch duration and the compression ratio do not make it fail.
C2_EmptyInputSucceeds ==
    (ValidStream /\ Chunked /\ input = <<>> /\ pc = "done") =>
        /\ result = "True"
        /\ metrics.chunk_times = <<>>

\* C3: whatever fails, the call raises nothing and returns (False, metrics) with
\* the metrics accumulated so far: chunk_times has exactly one entry for each batch
\* completely written before the failure, in batch order.
C3_FailureReturnsPartialMetrics ==
    (call = "stream" /\ pc = "done" /\ result # "True") =>
        /\ result = "False"
        /\ error # ""
        /\ written = OneTo(Len(written))
        /\ Len(metrics.chunk_times) = Len(written)
        /\ Chunked => \A k \in DOMAIN metrics.chunk_times :
               metrics.chunk_times[k] = 2 + Len(BatchLines(k, chunk_size[1]))
        /\ ("stat_input" \in Range(io)) => metrics.input_size = InputBytes(input)

C3_Witness ==
    /\ call = "stream" /\ pc = "done" /\ result = "False"
    /\ error = "ValueError"
    /\ Len(metrics.chunk_times) = 1
    /\ CountReads(io) = 2

\* C4: with a codec outside {snappy, gzip, brotli, none} the call fails before any
\* I/O: the input is neither measured nor read and the output file is neither
\* created nor modified, for every input.
C4_BadCodecFailsBeforeIO ==
    (call = "stream" /\ compression \notin SpecCodecs) =>
        /\ io = <<>>
        /\ outFile = outFile0
        /\ pc = "done" => result = "False"

\* C5: with chunk_size=None the reader produces exactly one batch holding all the
\* records, and it is flattened and written like any other batch; with a positive
\* batch size B every batch has at most B records and only the last may have fewer.
C5_UnboundedIsOneBatch ==
    /\ (ValidStream /\ chunk_size = <<>> /\ Len(input) >= 1 /\ pc = "done") =>
           /\ written = <<1>>
           /\ outFile.state = "parquet"
           /\ RowCount(outFile) = Len(input)
    /\ (call = "stream" /\ Chunked /\ pc \in {"flatten", "write", "record"}) =>
           /\ Len(chunk.df.rows) >= 1
           /\ Len(chunk.df.rows) <= chunk_size[1]
           /\ Len(chunk.df.rows) < chunk_size[1] => reader.pos > Len(input)

\* the records the current batch was read from
CurrentLines == SubSeq(input, reader.pos - Len(chunk.df.rows), reader.pos - 1)

\* C6: in every batch, the first and every later one, a column c whose first-row
\* value is a nested object is replaced: the flattened batch has no column c, and
\* column c.k holds at row r the value of key k in row r's object, null when the
\* object has no key k.
C6_FlattenedValues ==
    (call = "stream" /\ Chunked /\ pc = "write") =>
        \A c \in Range(UnionKeys(<<>>, [j \in DOMAIN CurrentLines |-> CurrentLines[j].fields])) :
            Lookup(CurrentLines[1].fields, c).t = "obj" =>
                /\ c \notin Range(chunk.df.columns)
                /\ \A r \in DOMAIN CurrentLines :
                     LET o == Lookup(CurrentLines[r].fields, c).o IN
                     \A q \in DOMAIN CurrentLines :
                       \A kk \in Range(UnionKeys(<<>>, <<Lookup(CurrentLines[q].fields, c).o>>)) :
                         /\ (c \o "." \o kk) \in Range(chunk.df.columns)
                         /\ chunk.df.rows[r][c \o "." \o kk] = Lookup(o, kk)

\* every record has the same keys and the same nested keys
Homogeneous == \A j \in DOMAIN input : input[j] = input[1]

\* C7: on valid inputs without heterogeneous batches, batch size B and batch size
\* 2B give final tables with the same row count and the same column set.
C7_BatchSizeInvariance ==
    (ValidStream /\ Homogeneous /\ run = 2 /\ pc = "done") =>
        /\ RowCount(firstRun.file) = RowCount(outFile)
        /\ ColumnSet(firstRun.file) = ColumnSet(outFile)

\* the mapping convert_with_custom_schema works with
MappingNames ==
    IF schema_definition = <<>> THEN {"id", "timestamp", "value", "category"}
    ELSE {schema_definition[j].k : j \in DOMAIN schema_definition}

MappingType(name) ==
    IF schema_definition = <<>>
    THEN DefaultSchema[CHOOSE j \in DOMAIN DefaultSchema : DefaultSchema[j].k = name].v.ty
    ELSE Lookup(schema_definition, name)

DataNames == Range(UnionKeys(<<>>, [j \in DOMAIN input |-> input[j].fields]))

MappedColumnAbsent == \E name \in MappingNames : name \notin DataNames

ValueNotCoercible ==
    \E name \in MappingNames \cap DataNames : \E j \in DOMAIN input :
        ~Coercible(Lookup(input[j].fields, name), MappingType(name))

\* C8: convert_with_custom_schema never raises and returns a boolean; when it
\* returns True it has written exactly one file whose columns are exactly the
\* mapping's columns; when a mapped column is absent from the data or a value
\* cannot be coerced it returns False and the output path has not been written.
C8_SchemaProjection ==
    (call = "schema" /\ pc = "done") =>
        /\ result \in {"True", "False"}
        /\ result = "True" =>
              /\ outFile.state = "parquet"
              /\ Len(outFile.groups) = 1
              /\ ColumnSet(outFile) = MappingNames
              /\ Len(outFile.groups[1].columns) = Cardinality(MappingNames)
              /\ RowCount(outFile) = Len(input)
              /\ written = <<1>>
        /\ (inputExists /\ AllLinesOk /\ (MappedColumnAbsent \/ ValueNotCoercible)) =>
              /\ result = "False"
              /\ outFile = outFile0
              /\ "write_output" \notin Range(io)

C8_Witness ==
    /\ call = "schema" /\ pc = "done" /\ result = "True"
    /\ "extra" \in DataNames
    /\ "extra" \notin ColumnSet(outFile)
    /\ schema_definition # <<>>

\* C9: batches go through reading, flattening and writing one at a time and in
\* input order: a batch is read only when every batch read before it has been
\* written and recorded; after the first failure nothing more is read, flattened
\* or written.
C9_OneAtATimeFailedTerminal ==
    [][(call = "stream" /\ run' = run) =>
          /\ (error # "") =>
                 UNCHANGED <<io, written, metrics, outFile, chunk, table, pc, result, error>>
          /\ (Chunked /\ CountReads(io') > CountReads(io)) =>
                 /\ Len(written) = CountReads(io)
                 /\ Len(metrics.chunk_times) = CountReads(io)
                 /\ reader.pos = CountReads(io) * chunk_size[1] + 1
          /\ (written' # written) =>
                 /\ written' = Append(written, CountReads(io))
                 /\ Len(metrics.chunk_times) = Len(written)]_vars

C9_Witness ==
    /\ call = "stream" /\ pc = "done" /\ error = "TypeError"
    /\ CountReads(io) = 2
    /\ written = <<1>>
    /\ Len(input) = 3

\* C10: whenever the call returns True, chunk_times has at least one entry, one per
\* batch of the input, each batch written; input_size is greater than 0; and
\* output_size was measured after the last batch was written.
C10_SuccessHasBatches ==
    (call = "stream" /\ result = "True") =>
        /\ Len(metrics.chunk_times) >= 1
        /\ Chunked
        /\ Len(metrics.chunk_times) = NumBatches(Len(input), chunk_size[1])
        /\ written = OneTo(Len(metrics.chunk_times))
        /\ metrics.input_size > 0
        /\ metrics.output_size = GetSize(outFile)
        /\ outFile.state = "parquet"
        /\ io[Len(io)] = "stat_output"
        /\ \A j \in 1..(Len(io) - 1) : io[j] # "stat_output"

C10_Witness ==
    /\ call = "stream" /\ result = "True"
    /\ Len(input) = 2
    /\ outFile0 = OldFile
    /\ metrics.output_size > 5

====
